---------------------------- MODULE Spec2Model ----------------------------
(***************************************************************************)
(* State-machine model of the streaming conversion engine: the execution   *)
(* adapter (FormatStream), the table provider, the format and plugin       *)
(* registries, the conversion pipeline, the local storage backend, the     *)
(* buffer pool, the two built-in codecs with their decode streams and      *)
(* write_batches, storage::from_url and the configuration validation.      *)
(*                                                                         *)
(* Each component has its own specification (Init/Next pair) over the      *)
(* shared variables; the variables of the other components stay at their   *)
(* idle values.                                                            *)
(***************************************************************************)
EXTENDS Integers, Sequences, FiniteSets, TLC

VARIABLES
    \* ---- execution adapter / table provider
    variant,      \* which draft of FormatStream: "execution" | "table_provider"
    pc,           \* "idle" | "provider" | "planned" | "streaming" | "rejected"
    data,         \* the source batch stream the provider / plan was constructed with
    planStream,   \* FormatExecPlan.stream
    partition,    \* the partition given to the latest execute
    inner,        \* FormatStream.stream / FormatStream.inner: items not yet pulled
    projection,   \* Option<Vec<usize>>: None or a sequence of 0-based column indices
    filters,      \* the pushed predicates, in order
    limit,        \* Option<usize>: None or a number
    count,        \* FormatStream.count
    out,          \* the items the stream has yielded so far, in order
    last,         \* result of the latest poll: "none" | "batch" | "err" | "end" | "panic"
    \* ---- format registry and plugin registry
    formats,      \* FormatRegistry.formats: name -> codec
    plugins,      \* PLUGIN_REGISTRY: plugin name -> plugin
    loaded,       \* PluginManager.loaded_libraries
    lookup,       \* the lookup made since the latest registration: None or [op, key, result]
    \* ---- conversion pipeline
    driver,       \* which main: "rs_app" (rs_app/src/main.rs) | "src" (src/main.rs)
    step,         \* position of main
    sql,          \* config.filter_sql is Some
    batches,      \* number of batches held by main
    prior,        \* the output object before the run: None or its content
    object,       \* the output object: None or its content
    puts,         \* number of put calls issued on the output storage
    okSteps,      \* the steps that have succeeded
    \* ---- local storage
    file,         \* the file at the resolved path: None when absent, else Some(bytes)
    objects,      \* the complete objects of the path: the one present at the start and
                  \* the payload of every put called
    wr,           \* put calls, one per writer: writer -> [st, payload, pos]
    rd,           \* get calls, one per reader: reader -> [st, buf]
    got,          \* the byte strings returned by completed gets
    \* ---- buffer pool
    permits,      \* semaphore permits available
    pool,         \* BufferPool.buffers: the number of buffers in the Vec
    task,         \* task -> "idle" | "permit" | "popped" | "holding"
    \* ---- codecs
    fmt,          \* the codec: [kind, has_header, declared, batch_size]
    input,        \* the batches handed to write_batches: [schema, batches]
    encoded,      \* result of write_batches: [tag, bytes], tag "none" before the call
    decoded,      \* result of read_batches on the encoded bytes: [tag, schema, batches]
    \* ---- decode streams, write_batches on arbitrary streams, local file system,
    \* ---- from_url, configuration validation (one record each, None when idle)
    decoder,      \* a decode stream: [kind, mode, against, source, yielded]
    encoder,      \* a write_batches call: [kind, items, result]
    localFs,      \* LocalStorage over a base directory: [files, outside, calls]
    opened,       \* a from_url call: [url, env, result]
    config,       \* a configuration: [compression, verdict, written]
    \* ---- plugin configuration, plugin manager, streaming Parquet reader, CSV type
    \* ---- inference, SyncReader (one record each, None when idle)
    pluginConfig, \* config.plugins: [enable_plugins, plugin_dir, ..., verdict]
    manager,      \* a PluginManager: [dir, alive, result]
    parquetReader,\* a StreamingParquetReader: its fields, its input and its output
    inference,    \* an infer_schema call: [has_header, lines, result]
    syncReader    \* a SyncReader: [data, pos, result]

streamVars   == <<variant, pc, data, planStream, partition, inner, projection, filters, limit, count, out, last>>
registryVars == <<formats, plugins, loaded, lookup>>
pipelineVars == <<driver, step, sql, batches, prior, object, puts, okSteps>>
storageVars  == <<file, objects, wr, rd, got>>
poolVars     == <<permits, pool, task>>
codecVars    == <<fmt, input, encoded, decoded>>
auxVars      == <<decoder, encoder, localFs, opened, config>>
moreVars     == <<pluginConfig, manager, parquetReader, inference, syncReader>>
vars == <<streamVars, registryVars, pipelineVars, storageVars, poolVars, codecVars, auxVars,
          moreVars>>

\* Option<T>: None is the empty sequence, Some(x) the one-element sequence.
None == <<>>
Some(x) == <<x>>

\* The components of moreVars are idle.
MoreIdle ==
    /\ pluginConfig = None /\ manager = None /\ parquetReader = None
    /\ inference = None /\ syncReader = None

\* The components of auxVars and moreVars are idle.
AuxIdle ==
    /\ decoder = None /\ encoder = None /\ localFs = None /\ opened = None /\ config = None
    /\ MoreIdle

\* Sequences over S of length at most n.
SeqUpTo(S, n) == UNION {[1..k -> S] : k \in 0..n}

(***************************************************************************)
(* Execution adapter: FormatExecPlan / FormatStream                        *)
(***************************************************************************)
MaxVal == 1
MaxRows == 2
MaxBatches == 2
MaxLimit == 2
MaxFilters == 2
MaxPartition == 1

Schema == <<"a", "b">>
NumCols == Len(Schema)
Vals == 0..MaxVal
Rows == [1..NumCols -> Vals]

Batch(rows) == [kind |-> "batch", rows |-> rows]
ErrItem == [kind |-> "err"]
\* RecordBatch::new_empty(schema)
EmptyBatch == Batch(<<>>)
BatchItems == {Batch(r) : r \in SeqUpTo(Rows, MaxRows)}
Items == BatchItems \cup {ErrItem}
Sources == SeqUpTo(Items, MaxBatches)

\* A predicate is a comparison of one column with a constant (boolean mask),
\* or an expression whose value is not a boolean array.
Preds == {[col |-> c, min |-> 1, bool |-> TRUE] : c \in 0..(NumCols - 1)}
         \cup {[col |-> 0, min |-> 0, bool |-> FALSE]}
Holds(p, row) == row[p.col + 1] >= p.min

Projections == {None, Some(<<0>>), Some(<<1>>), Some(<<1, 0>>), Some(<<NumCols>>)}
Limits == {None} \cup {Some(l) : l \in 0..MaxLimit}

\* filter_record_batch(batch, mask)
FilterRows(p, rows) == SelectSeq(rows, LAMBDA r : Holds(p, r))

\* execution.rs: the filter loop; None (an error) when a mask is not a BooleanArray.
RECURSIVE ApplyFilters(_, _)
ApplyFilters(fs, rows) ==
    IF fs = <<>> THEN Some(rows)
    ELSE IF ~Head(fs).bool THEN None
    ELSE ApplyFilters(Tail(fs), FilterRows(Head(fs), rows))

\* table_provider.rs: the filter loop has an empty body.
PassThroughFilters(fs, rows) == Some(rows)

FilterStep(v, fs, rows) ==
    IF v = "execution" THEN ApplyFilters(fs, rows) ELSE PassThroughFilters(fs, rows)

InRange(p) == \A i \in 1..Len(p) : p[i] < NumCols
ProjectRow(p, row) == [i \in 1..Len(p) |-> row[p[i] + 1]]
ProjectRows(p, rows) == [k \in 1..Len(rows) |-> ProjectRow(p, rows[k])]

\* execution.rs counts batches; table_provider.rs counts rows.
CountAfter(v, c, rows) == IF v = "execution" THEN c + 1 ELSE c + Len(rows)

\* the check at the head of poll_next
LimitReached(l, c) == l # None /\ c >= l[1]

StreamStart(src) ==
    /\ inner = src
    /\ count = 0
    /\ out = <<>>
    /\ last = "none"

\* FormatStream over an arbitrary inner stream
StreamInit ==
    /\ variant \in {"execution", "table_provider"}
    /\ pc = "streaming"
    /\ data \in Sources
    /\ planStream = data
    /\ partition = 0
    /\ projection \in Projections
    /\ filters \in SeqUpTo(Preds, MaxFilters)
    /\ limit \in Limits
    /\ StreamStart(data)

\* A provider (table_provider.rs) or a plan (execution.rs) constructed over a source
ScanInit ==
    /\ variant \in {"execution", "table_provider"}
    /\ pc = (IF variant = "table_provider" THEN "provider" ELSE "planned")
    /\ data \in Sources
    /\ planStream = (IF variant = "table_provider" THEN <<>> ELSE data)
    /\ partition = 0
    /\ projection \in Projections
    /\ filters \in SeqUpTo(Preds, MaxFilters)
    /\ limit \in Limits
    /\ StreamStart(<<>>)

StreamIdle ==
    /\ variant = "execution"
    /\ pc = "idle"
    /\ data = <<>>
    /\ planStream = <<>>
    /\ partition = 0
    /\ projection = None
    /\ filters = <<>>
    /\ limit = None
    /\ StreamStart(<<>>)

Yield(item, kind) ==
    /\ out' = Append(out, item)
    /\ last' = kind

\* poll_next returns Ready(None) without polling the source
PollLimitEnd ==
    /\ pc = "streaming" /\ last # "panic"
    /\ LimitReached(limit, count)
    /\ last' = "end"
    /\ UNCHANGED <<variant, pc, data, planStream, partition, inner, projection, filters, limit, count, out>>

\* the source yields None
PollSourceEnd ==
    /\ pc = "streaming" /\ last # "panic"
    /\ ~LimitReached(limit, count)
    /\ inner = <<>>
    /\ last' = "end"
    /\ UNCHANGED <<variant, pc, data, planStream, partition, inner, projection, filters, limit, count, out>>

\* the source yields Some(Err(e)): forwarded
PollSourceErr ==
    /\ pc = "streaming" /\ last # "panic"
    /\ ~LimitReached(limit, count)
    /\ inner # <<>> /\ Head(inner).kind = "err"
    /\ inner' = Tail(inner)
    /\ Yield(ErrItem, "err")
    /\ UNCHANGED <<variant, pc, data, planStream, partition, projection, filters, limit, count>>

\* the source yields Some(Ok(batch))
PollBatch ==
    /\ pc = "streaming" /\ last # "panic"
    /\ ~LimitReached(limit, count)
    /\ inner # <<>> /\ Head(inner).kind = "batch"
    /\ inner' = Tail(inner)
    /\ LET f == FilterStep(variant, filters, Head(inner).rows) IN
         IF f = None
         THEN Yield(ErrItem, "err") /\ count' = count
         ELSE IF projection # None /\ ~InRange(projection[1])
         THEN IF variant = "execution"
              THEN last' = "panic" /\ UNCHANGED <<out, count>>     \* .unwrap()
              ELSE Yield(ErrItem, "err") /\ count' = count          \* map_err(..)?
         ELSE LET rows == IF projection = None THEN f[1]
                          ELSE ProjectRows(projection[1], f[1]) IN
                /\ Yield(Batch(rows), "batch")
                /\ count' = CountAfter(variant, count, rows)
    /\ UNCHANGED <<variant, pc, data, planStream, partition, projection, filters, limit>>

\* FormatTableProvider::scan: the plan is built over a one-item stream holding an
\* empty batch, not over self.data.
Scan ==
    /\ pc = "provider"
    /\ pc' = "planned"
    /\ planStream' = <<EmptyBatch>>
    /\ UNCHANGED <<variant, data, partition, inner, projection, filters, limit, count, out, last>>

\* the stream FormatExecPlan::execute hands to FormatStream
ExecuteSource(plan) == <<EmptyBatch>>

\* execution.rs rejects a partition other than 0; table_provider.rs ignores it
Rejects(v, p) == v = "execution" /\ p # 0

\* FormatExecPlan::execute(partition, _)
Execute(p) ==
    /\ pc = "planned"
    /\ partition' = p
    /\ IF Rejects(variant, p)
       THEN pc' = "rejected" /\ UNCHANGED <<inner, count, out, last>>
       ELSE /\ pc' = "streaming"
            /\ inner' = ExecuteSource(planStream)
            /\ count' = 0
            /\ UNCHANGED <<out, last>>
    /\ UNCHANGED <<variant, data, planStream, projection, filters, limit>>

(***************************************************************************)
(* The stream's next-state relations and the claims about it               *)
(***************************************************************************)
StreamOnly == UNCHANGED <<registryVars, pipelineVars, storageVars, poolVars, codecVars, auxVars, moreVars>>

StreamNext ==
    \/ PollLimitEnd /\ StreamOnly
    \/ PollSourceEnd /\ StreamOnly
    \/ PollSourceErr /\ StreamOnly
    \/ PollBatch /\ StreamOnly

\* After scan and execute the inner stream is always the one empty batch, so the
\* source-error branch of poll_next (PollSourceErr) cannot be taken here.
ScanNext ==
    \/ Scan /\ StreamOnly
    \/ (\E p \in 0..MaxPartition : Execute(p)) /\ StreamOnly
    \/ PollLimitEnd /\ StreamOnly
    \/ PollSourceEnd /\ StreamOnly
    \/ PollBatch /\ StreamOnly

\* ---- derived views of a stream history
RECURSIVE RowsOf(_)
RowsOf(items) ==
    IF items = <<>> THEN <<>>
    ELSE (IF Head(items).kind = "batch" THEN Head(items).rows ELSE <<>>) \o RowsOf(Tail(items))

NoErr(items) == \A i \in 1..Len(items) : items[i].kind = "batch"
AllBool(fs) == \A i \in 1..Len(fs) : fs[i].bool
Ended == pc = "streaming" /\ last = "end"

\* project(filter(full_scan(), F), P), computed row by row
Passes(fs, row) == \A i \in 1..Len(fs) : Holds(fs[i], row)
Reference(src, fs, p) ==
    LET kept == SelectSeq(RowsOf(src), LAMBDA r : Passes(fs, r)) IN
      IF p = None THEN kept ELSE ProjectRows(p[1], kept)

\* C1: whatever the source batches are, the rows yielded by the stream never
\* number more than the configured limit.
C1_LimitBoundsRows ==
    (pc = "streaming" /\ limit # None) => Len(RowsOf(out)) <= limit[1]

\* C2: the stream obtained by scan and execute(0) delivers every batch of the
\* source the provider / plan was constructed with: with no pushdown and an
\* error-free source, the items delivered at end of stream are the source's.
C2_ScanDeliversSource ==
    (Ended /\ NoErr(data) /\ limit = None /\ filters = <<>> /\ projection = None)
        => out = data

\* C3: the rows of scan(P, F) are the rows of project(filter(full_scan(), F), P):
\* at end of an error-free, unlimited stream with boolean predicates and an
\* in-range projection, the rows delivered equal the reference.
C3_PushdownEquivalence ==
    (Ended /\ NoErr(data) /\ limit = None /\ AllBool(filters)
       /\ (projection # None => InRange(projection[1])))
        => RowsOf(out) = Reference(data, filters, projection)

\* C12: on the executed scan stream the first error item is the last item:
\* once poll_next has yielded an error no further item is yielded.
C12_ErrorTerminates ==
    pc = "streaming" => \A i \in 1..Len(out) : out[i].kind = "err" => i = Len(out)

\* C15: execute(partition) returns an error and no stream for every partition
\* other than 0, and a stream only for partition 0.
C15_SinglePartition ==
    pc \in {"streaming", "rejected"} => (pc = "streaming" <=> partition = 0)

\* RecordBatchStream::schema of FormatStream and ExecutionPlan::schema of
\* FormatExecPlan: self.schema.clone(), the schema the plan was constructed with
ReportedSchema == Schema

\* Schema::project
ProjectSchema(p) == [i \in 1..Len(p) |-> Schema[p[i] + 1]]

\* C26: with a projection set, the schema reported by the plan and the stream
\* is the projection of the source schema and every yielded batch has exactly
\* that many columns; an out-of-range projection index makes the stream yield
\* an error, it does not panic.
C26_ProjectedSchema ==
    (pc = "streaming" /\ projection # None) =>
        /\ last # "panic"
        /\ InRange(projection[1]) =>
              /\ ReportedSchema = ProjectSchema(projection[1])
              /\ \A i \in 1..Len(out) : out[i].kind = "batch" =>
                    \A k \in 1..Len(out[i].rows) :
                       Len(out[i].rows[k]) = Len(projection[1])

\* C27: once the rows yielded reach or exceed the configured limit, the next
\* poll returns end-of-stream, does not poll the source and leaves the count
\* unchanged.
C27_LimitEndsStream ==
    [][(pc = "streaming" /\ limit # None /\ Len(RowsOf(out)) >= limit[1])
          => (last' = "end" /\ inner' = inner /\ count' = count)]_vars

(***************************************************************************)
(* Format registry (formats/mod.rs) and plugin registry (plugin.rs)        *)
(***************************************************************************)
MaxLoaded == 2

CsvDefault == "CsvFormat::default()"
ParquetDefault == "ParquetFormat::default()"
\* codecs a caller may hand to register_format
CustomCodecs == {"custom_a", "custom_b"}
Names == {"csv", "parquet", "json"}

\* Dynamic libraries of the plugin directory: the metadata of the plugin each one
\* creates. Two libraries may carry the same plugin name or the same extension.
Libraries ==
    { [lib |-> "libjson", name |-> "json", exts |-> {"json"}],
      [lib |-> "libfastcsv", name |-> "fastcsv", exts |-> {"csv"}],
      [lib |-> "libjson2", name |-> "json", exts |-> {"json", "csv"}],
      [lib |-> "libtext", name |-> "text", exts |-> {"csv", "json"}] }
\* FormatPlugin::create_format of the plugin a library creates
PluginCodec(l) == "plugin:" \o l.lib

\* HashMap::insert
Insert(m, k, v) == [x \in DOMAIN m \cup {k} |-> IF x = k THEN v ELSE m[x]]
EmptyMap == [x \in {} |-> None]

\* FormatRegistry::new
NewFormatRegistry == Insert(Insert(EmptyMap, "csv", CsvDefault), "parquet", ParquetDefault)

RegistryInit ==
    /\ formats = NewFormatRegistry
    /\ plugins = EmptyMap
    /\ loaded = <<>>
    /\ lookup = None

RegistryIdle ==
    /\ formats = EmptyMap /\ plugins = EmptyMap /\ loaded = <<>> /\ lookup = None

\* register_format(name, format)
RegisterFormat(name, codec) ==
    /\ formats' = Insert(formats, name, codec)
    /\ lookup' = None
    /\ UNCHANGED <<plugins, loaded>>

\* get_format(name): FORMAT_REGISTRY.read().get_format(name)
GetFormatResult(name) == IF name \in DOMAIN formats THEN Some(formats[name]) ELSE None
GetFormat(name) ==
    /\ lookup' = Some([op |-> "get_format", key |-> name, result |-> GetFormatResult(name)])
    /\ UNCHANGED <<formats, plugins, loaded>>

\* get_format_for_extension(extension): a match on the literal extension
ForExtension(ext) ==
    IF ext = "csv" THEN Some(CsvDefault)
    ELSE IF ext = "parquet" THEN Some(ParquetDefault)
    ELSE None
GetFormatForExtension(ext) ==
    /\ lookup' = Some([op |-> "get_format_for_extension", key |-> ext,
                       result |-> ForExtension(ext)])
    /\ UNCHANGED <<formats, plugins, loaded>>

\* PluginManager::load_plugin(path), the library opening and its symbol resolving
LoadPlugin(l) ==
    /\ Len(loaded) < MaxLoaded
    /\ plugins' = Insert(plugins, l.name, l)
    /\ loaded' = Append(loaded, l.lib)
    /\ lookup' = None
    /\ UNCHANGED formats

\* PluginManager::get_plugin_for_extension: the first of values() claiming the
\* extension, in the map's iteration order
Claiming(ext) == {n \in DOMAIN plugins : ext \in plugins[n].exts}
GetPluginForExtension(ext) ==
    /\ \E r \in (IF Claiming(ext) = {} THEN {None}
                  ELSE {Some(PluginCodec(plugins[n])) : n \in Claiming(ext)}) :
          lookup' = Some([op |-> "get_plugin_for_extension", key |-> ext, result |-> r])
    /\ UNCHANGED <<formats, plugins, loaded>>

RegistryOnly == UNCHANGED <<streamVars, pipelineVars, storageVars, poolVars, codecVars, auxVars, moreVars>>

RegistryNext ==
    \/ (\E n \in Names, c \in CustomCodecs : RegisterFormat(n, c)) /\ RegistryOnly
    \/ (\E n \in Names : GetFormat(n)) /\ RegistryOnly
    \/ (\E e \in Names : GetFormatForExtension(e)) /\ RegistryOnly
    \/ (\E l \in Libraries : LoadPlugin(l)) /\ RegistryOnly
    \/ (\E e \in Names : GetPluginForExtension(e)) /\ RegistryOnly

\* the codec of the latest register_format for a name, if one was made
Registered(name) ==
    IF name \in DOMAIN formats /\ formats[name] \in CustomCodecs
    THEN Some(formats[name]) ELSE None

LookedUpByExtension == lookup # None /\ lookup[1].op = "get_format_for_extension"

\* C4: after register(ext, codec), a lookup by extension made before any later
\* registration returns the registered codec, for built-in and new extensions.
C4_RegistryPrecedence ==
    (LookedUpByExtension /\ Registered(lookup[1].key) # None)
        => lookup[1].result = Registered(lookup[1].key)

\* C5: once a loaded plugin claims an extension that a built-in format serves,
\* a lookup by that extension returns the codec of a plugin claiming it, not the
\* built-in codec.
C5_PluginWinsBinding ==
    (LookedUpByExtension /\ lookup[1].key \in DOMAIN NewFormatRegistry
       /\ Claiming(lookup[1].key) # {})
        => \E n \in Claiming(lookup[1].key) :
              lookup[1].result = Some(PluginCodec(plugins[n]))

\* C6: in every state of the registries an extension is bound to at most one
\* registered plugin.
C6_OneBindingPerExtension ==
    \A e \in Names : Cardinality(Claiming(e)) <= 1
(***************************************************************************)
(* Conversion pipeline: main and write_parquet                             *)
(***************************************************************************)
MaxPipeBatches == 2

PriorObject == [src |-> "prior", n |-> 0]
PartialObject == [src |-> "partial", n |-> 0]
Written(n) == [src |-> "pipeline", n |-> n]

PipelineInit ==
    /\ driver \in {"rs_app", "src"}
    /\ step = "start"
    /\ sql \in BOOLEAN
    /\ batches = 0
    /\ prior \in {None, Some(PriorObject)}
    /\ object = prior
    /\ puts = 0
    /\ okSteps = {}

PipelineIdle ==
    /\ driver = "rs_app" /\ step = "idle" /\ sql = FALSE /\ batches = 0
    /\ prior = None /\ object = None /\ puts = 0 /\ okSteps = {}

\* a main that drops the error of a failed call and goes on
TryIgnoringError(ok, next) == next

\* the `?` after a fallible call: main goes on when the call succeeded and
\* returns the error otherwise
Try(ok, next) == IF ok THEN next ELSE "failed"

Advance(name, ok, next) ==
    /\ step' = Try(ok, next)
    /\ okSteps' = IF ok THEN okSteps \cup {name} ELSE okSteps

\* storage::from_url / Url::parse of the input and output URLs
Setup(ok) ==
    /\ step = "start"
    /\ Advance("setup", ok, "opened")
    /\ UNCHANGED <<driver, sql, batches, prior, object, puts>>

\* input_storage.get(input_path)
ReadInput(ok) ==
    /\ step = "opened"
    /\ Advance("read", ok, "read")
    /\ UNCHANGED <<driver, sql, batches, prior, object, puts>>

\* ParquetRecordBatchStreamBuilder::new(reader) .. build, and collecting the stream
Decode(ok, n) ==
    /\ step = "read"
    /\ Advance("decode", ok, "decoded")
    /\ batches' = IF ok THEN n ELSE batches
    /\ UNCHANGED <<driver, sql, prior, object, puts>>

\* apply_sql_filter(batches, sql): no query is run on an empty batch list
Query(ok, m) ==
    /\ step = "decoded" /\ sql
    /\ IF batches = 0
       THEN Advance("query", TRUE, "queried") /\ batches' = 0
       ELSE Advance("query", ok, "queried") /\ batches' = (IF ok THEN m ELSE batches)
    /\ UNCHANGED <<driver, sql, prior, object, puts>>

\* config.filter_sql is None
SkipQuery ==
    /\ step = "decoded" /\ ~sql
    /\ step' = "queried"
    /\ UNCHANGED <<driver, sql, batches, prior, object, puts, okSteps>>

\* write_parquet up to writer.close(): rs_app indexes batches[0] (a panic on an
\* empty list), src returns Ok(()) on an empty list without writing
Encode(ok) ==
    /\ step = "queried"
    /\ IF batches = 0
       THEN /\ step' = (IF driver = "rs_app" THEN "panicked" ELSE "done")
            /\ UNCHANGED okSteps
       ELSE Advance("encode", ok, "encoded")
    /\ UNCHANGED <<driver, sql, batches, prior, object, puts>>

\* write_parquet reaches storage.put once the writer is closed
PutReached == step = "encoded"

\* storage.put(path, bytes): a failing put leaves the object as the backend leaves it
Put(ok) ==
    /\ PutReached
    /\ puts' = puts + 1
    /\ step' = Try(ok, "done")
    /\ IF ok THEN object' = Some(Written(batches))
       ELSE object' \in {object, Some(PartialObject)}
    /\ okSteps' = IF ok THEN okSteps \cup {"put"} ELSE okSteps
    /\ UNCHANGED <<driver, sql, batches, prior>>

PipelineOnly == UNCHANGED <<streamVars, registryVars, storageVars, poolVars, codecVars, auxVars, moreVars>>

PipelineNext ==
    \/ (\E ok \in BOOLEAN : Setup(ok)) /\ PipelineOnly
    \/ (\E ok \in BOOLEAN : ReadInput(ok)) /\ PipelineOnly
    \/ (\E ok \in BOOLEAN, n \in 0..MaxPipeBatches : Decode(ok, n)) /\ PipelineOnly
    \/ (\E ok \in BOOLEAN, m \in 0..MaxPipeBatches : Query(ok, m)) /\ PipelineOnly
    \/ SkipQuery /\ PipelineOnly
    \/ (\E ok \in BOOLEAN : Encode(ok)) /\ PipelineOnly
    \/ (\E ok \in BOOLEAN : Put(ok)) /\ PipelineOnly

\* the steps that precede the put
Needed == {"read", "decode", "encode"} \cup (IF sql THEN {"query"} ELSE {})

\* C7: a put is issued, and the output object differs from what it was before
\* the run, only when reading, decoding, the SQL query (if one was given) and
\* encoding have all succeeded; a run that failed in one of them has issued no
\* put and left the output object as it was.
C7_PutOnlyAfterSuccess ==
    /\ (puts > 0 \/ object # prior) => Needed \subseteq okSteps
    /\ (step \in {"failed", "panicked"} /\ ~(Needed \subseteq okSteps))
          => (puts = 0 /\ object = prior)

\* a run with a query that got as far as the put and published its output
C7_Witness == puts > 0 /\ step = "done" /\ sql /\ object = Some(Written(batches))
(***************************************************************************)
(* Local storage backend: LocalStorage::get / put on one path              *)
(***************************************************************************)
MaxLen == 2
MaxByte == 2
MaxWriters == 1
MaxReaders == 2

Payloads == SeqUpTo(1..MaxByte, MaxLen)
Writers == 1..MaxWriters
Readers == 1..MaxReaders

IdleWriter == [st |-> "idle", payload |-> <<>>, pos |-> 0]
IdleReader == [st |-> "idle", buf |-> <<>>]

StorageInit ==
    /\ file \in {None} \cup {Some(p) : p \in Payloads}
    /\ objects = {file[i] : i \in 1..Len(file)}
    /\ wr = [w \in Writers |-> IdleWriter]
    /\ rd = [r \in Readers |-> IdleReader]
    /\ got = {}

StorageIdle ==
    /\ file = None /\ objects = {} /\ wr = <<>> /\ rd = <<>> /\ got = {}

\* bytes written at offset pos of a file; a gap left by a write past the end of a
\* file truncated meanwhile reads as zero bytes
WriteAt(bytes, pos, chunk) ==
    [i \in 1..(IF pos + Len(chunk) > Len(bytes) THEN pos + Len(chunk) ELSE Len(bytes)) |->
        IF i > pos /\ i <= pos + Len(chunk) THEN chunk[i - pos]
        ELSE IF i <= Len(bytes) THEN bytes[i] ELSE 0]

\* put(path, data) is called: resolve_path, create_dir_all(parent)
PutCall(w, bytes) ==
    /\ wr[w].st = "idle"
    /\ wr' = [wr EXCEPT ![w] = [st |-> "called", payload |-> bytes, pos |-> 0]]
    /\ objects' = objects \cup {bytes}
    /\ UNCHANGED <<file, rd, got>>

\* what opening the file for fs::write leaves at the path: created or truncated
OpenForWrite(f) == Some(<<>>)

\* fs::write opens the file
PutOpen(w) ==
    /\ wr[w].st = "called"
    /\ file' = OpenForWrite(file)
    /\ wr' = [wr EXCEPT ![w].st = "writing"]
    /\ UNCHANGED <<objects, rd, got>>

\* fs::write writes the next k bytes of the payload
PutWrite(w, k) ==
    /\ wr[w].st = "writing" /\ file # None
    /\ k >= 1 /\ wr[w].pos + k <= Len(wr[w].payload)
    /\ file' = Some(WriteAt(file[1], wr[w].pos,
                            SubSeq(wr[w].payload, wr[w].pos + 1, wr[w].pos + k)))
    /\ wr' = [wr EXCEPT ![w].pos = @ + k]
    /\ UNCHANGED <<objects, rd, got>>

\* fs::write returns Ok: every byte is written
PutReturn(w) ==
    /\ wr[w].st = "writing" /\ wr[w].pos = Len(wr[w].payload)
    /\ wr' = [wr EXCEPT ![w].st = "ok"]
    /\ UNCHANGED <<file, objects, rd, got>>

\* fs::write returns an I/O error part-way: put returns it, the file stays as it is
PutFail(w) ==
    /\ wr[w].st = "writing" /\ wr[w].pos < Len(wr[w].payload)
    /\ wr' = [wr EXCEPT ![w].st = "err"]
    /\ UNCHANGED <<file, objects, rd, got>>

\* get(path) is called: fs::read opens the file, an error when it is absent
GetOpen(r) ==
    /\ rd[r].st = "idle"
    /\ rd' = [rd EXCEPT ![r].st = IF file = None THEN "err" ELSE "reading"]
    /\ UNCHANGED <<file, objects, wr, got>>

\* fs::read reads the next k bytes
GetRead(r, k) ==
    /\ rd[r].st = "reading" /\ file # None
    /\ k >= 1 /\ Len(rd[r].buf) + k <= Len(file[1])
    /\ rd' = [rd EXCEPT ![r].buf = @ \o SubSeq(file[1], Len(@) + 1, Len(@) + k)]
    /\ UNCHANGED <<file, objects, wr, got>>

\* fs::read reaches the end of the file: get returns the bytes read
GetReturn(r) ==
    /\ rd[r].st = "reading" /\ file # None
    /\ Len(rd[r].buf) >= Len(file[1])
    /\ got' = got \cup {rd[r].buf}
    /\ rd' = [rd EXCEPT ![r].st = "ok"]
    /\ UNCHANGED <<file, objects, wr>>

StorageOnly == UNCHANGED <<streamVars, registryVars, pipelineVars, poolVars, codecVars, auxVars, moreVars>>

StorageNext ==
    \/ (\E w \in Writers, d \in Payloads : PutCall(w, d)) /\ StorageOnly
    \/ (\E w \in Writers : PutOpen(w)) /\ StorageOnly
    \/ (\E w \in Writers, k \in 1..MaxLen : PutWrite(w, k)) /\ StorageOnly
    \/ (\E w \in Writers : PutReturn(w)) /\ StorageOnly
    \/ (\E w \in Writers : PutFail(w)) /\ StorageOnly
    \/ (\E r \in Readers : GetOpen(r)) /\ StorageOnly
    \/ (\E r \in Readers, k \in 1..MaxLen : GetRead(r, k)) /\ StorageOnly
    \/ (\E r \in Readers : GetReturn(r)) /\ StorageOnly

\* C8: whatever the interleaving of put and get, and also when a put fails
\* part-way, every get returns a complete object of the path (the prior one or
\* a new one), never a prefix or a mix.
C8_AtomicPut == got \subseteq objects
(***************************************************************************)
(* Buffer pool: BufferPool::acquire and the BufferGuard                    *)
(***************************************************************************)
PoolSize == 2
MaxTasks == 3

Tasks == 1..MaxTasks

\* BufferPool::new: buffer_pool_size buffers and as many semaphore permits
PoolInit ==
    /\ permits = PoolSize
    /\ pool = PoolSize
    /\ task = [t \in Tasks |-> "idle"]

PoolIdle ==
    /\ permits = 0 /\ pool = 0 /\ task = <<>>

\* self.semaphore.acquire().await completes: the permit is the local _permit
AcquirePermit(t) ==
    /\ task[t] = "idle"
    /\ permits > 0
    /\ permits' = permits - 1
    /\ task' = [task EXCEPT ![t] = "permit"]
    /\ UNCHANGED pool

\* self.buffers.lock().pop().unwrap_or_else(|| BytesMut::with_capacity(..))
PopBuffer(t) ==
    /\ task[t] = "permit"
    /\ pool' = (IF pool > 0 THEN pool - 1 ELSE pool)
    /\ task' = [task EXCEPT ![t] = "popped"]
    /\ UNCHANGED permits

\* the permits the semaphore gets back when acquire returns: _permit is a local of
\* acquire and is dropped at its end; the guard does not hold it
PermitsAfterReturn(n) == n + 1

\* acquire returns the BufferGuard
ReturnGuard(t) ==
    /\ task[t] = "popped"
    /\ permits' = PermitsAfterReturn(permits)
    /\ task' = [task EXCEPT ![t] = "holding"]
    /\ UNCHANGED pool

\* BufferGuard::drop: return_buffer pushes the buffer
DropGuard(t) ==
    /\ task[t] = "holding"
    /\ pool' = pool + 1
    /\ task' = [task EXCEPT ![t] = "idle"]
    /\ UNCHANGED permits

\* BufferGuard::into_bytes: the buffer is taken, drop returns nothing
IntoBytes(t) ==
    /\ task[t] = "holding"
    /\ task' = [task EXCEPT ![t] = "idle"]
    /\ UNCHANGED <<permits, pool>>

PoolOnly == UNCHANGED <<streamVars, registryVars, pipelineVars, storageVars, codecVars, auxVars, moreVars>>

PoolNext ==
    \/ (\E t \in Tasks : AcquirePermit(t)) /\ PoolOnly
    \/ (\E t \in Tasks : PopBuffer(t)) /\ PoolOnly
    \/ (\E t \in Tasks : ReturnGuard(t)) /\ PoolOnly
    \/ (\E t \in Tasks : DropGuard(t)) /\ PoolOnly
    \/ (\E t \in Tasks : IntoBytes(t)) /\ PoolOnly

Outstanding == {t \in Tasks : task[t] = "holding"}

\* C9: on a pool of size N at most N guards are outstanding at any time.
C9_AtMostPoolSizeGuards == Cardinality(Outstanding) <= PoolSize
(***************************************************************************)
(* Codecs: CsvFormat and ParquetFormat, write_batches / read_batches       *)
(*                                                                         *)
(* A cell is the text of its value; its type is the type of its column.    *)
(* A batch is a sequence of rows, a row a sequence of cells.               *)
(***************************************************************************)
MaxCodecRows == 2
MaxCodecBatches == 2
MaxBatchSize == 2

\* str::parse::<i64> and str::parse::<f64> on the texts of the model
ParsesInt(t) == t \in {"1", "2", "07"}
ParsesFloat(t) == ParsesInt(t) \/ t \in {"1.5", "2.0"}

\* the text of the value a parsed cell holds
IntText(t) == IF t = "07" THEN "7" ELSE t
FloatText(t) == IF t = "1" THEN "1.0" ELSE IF t = "2" THEN "2.0"
                ELSE IF t = "07" THEN "7.0" ELSE t

\* the values of a column of each type, as written by the encoders
CellsOf(type) ==
    IF type = "Int64" THEN {"1", "2"}
    ELSE IF type = "Float64" THEN {"1.5", "2.0"}
    ELSE {"x", "07"}

Schemas == {<<"Int64">>, <<"Utf8">>, <<"Float64">>, <<"Int64", "Utf8">>}
FieldNames(schema) == [i \in 1..Len(schema) |-> IF i = 1 THEN "a" ELSE "b"]
RowsOfSchema(schema) ==
    {r \in [1..Len(schema) -> UNION {CellsOf(schema[i]) : i \in 1..Len(schema)}] :
        \A i \in 1..Len(schema) : r[i] \in CellsOf(schema[i])}
BatchesOfSchema(schema) == SeqUpTo(SeqUpTo(RowsOfSchema(schema), MaxCodecRows), MaxCodecBatches)

RECURSIVE Flatten(_)
Flatten(bs) == IF bs = <<>> THEN <<>> ELSE Head(bs) \o Flatten(Tail(bs))

\* rows cut into batches of at most n rows, in order
RECURSIVE Chunks(_, _)
Chunks(rows, n) ==
    IF rows = <<>> THEN <<>>
    ELSE IF Len(rows) <= n THEN <<rows>>
    ELSE <<SubSeq(rows, 1, n)>> \o Chunks(SubSeq(rows, n + 1, Len(rows)), n)

NoResult == [tag |-> "none"]
ErrResult == [tag |-> "err"]

\* CsvFormat::infer_field_type: the loop over the sampled values of one column
RECURSIVE InferLoop(_, _, _, _)
InferLoop(values, has_int, has_float, all_empty) ==
    IF values = <<>> THEN <<has_int, has_float, all_empty>>
    ELSE IF Head(values) = "" THEN InferLoop(Tail(values), has_int, has_float, all_empty)
    ELSE LET hi == has_int /\ ParsesInt(Head(values))
             hf == has_float /\ ParsesFloat(Head(values)) IN
           IF ~hi /\ ~hf THEN <<hi, hf, FALSE>>
           ELSE InferLoop(Tail(values), hi, hf, FALSE)

InferFieldType(values) ==
    LET r == InferLoop(values, TRUE, TRUE, TRUE) IN
      IF r[3] THEN "Utf8"
      ELSE IF r[1] THEN "Int64"
      ELSE IF r[2] THEN "Float64"
      ELSE "Utf8"

\* the header row is sampled with the data
AllRecords(f, lines) == lines

\* the records a csv reader sees: every line, less the header line when has_header
Records(f, lines) == IF f.has_header /\ lines # <<>> THEN Tail(lines) ELSE lines

Column(records, i) == [k \in 1..Len(records) |-> records[k][i]]

\* CsvFormat::infer_schema: the declared schema if there is one, else a type per
\* column of the first record, inferred over the records
CsvInferSchema(f, lines) ==
    IF f.declared # None THEN f.declared[1]
    ELSE LET recs == Records(f, lines) IN
           IF recs = <<>> THEN <<>>
           ELSE [i \in 1..Len(recs[1]) |-> InferFieldType(Column(recs, i))]

\* a cell read against the type of its column
ReadCell(type, t) ==
    IF type = "Int64" THEN IntText(t)
    ELSE IF type = "Float64" THEN FloatText(t)
    ELSE t

\* CsvFormat::write_batches
CsvWrite(f, in) ==
    IF in.batches = <<>> THEN ErrResult
    ELSE [tag |-> "ok",
          bytes |-> (IF f.has_header THEN <<FieldNames(in.schema)>> ELSE <<>>)
                    \o Flatten(in.batches)]

\* CsvFormat::read_batches
CsvRead(f, lines) ==
    LET schema == CsvInferSchema(f, lines)
        recs == Records(f, lines)
        rows == [k \in 1..Len(recs) |->
                    [i \in 1..Len(schema) |-> ReadCell(schema[i], recs[k][i])]]
    IN [tag |-> "ok", schema |-> schema, batches |-> Chunks(rows, f.batch_size)]

\* ParquetFormat::write_batches: the footer carries the schema
ParquetWrite(f, in) ==
    IF in.batches = <<>> THEN ErrResult
    ELSE [tag |-> "ok", bytes |-> <<in.schema>> \o Flatten(in.batches)]

\* ParquetFormat::read_batches
ParquetRead(f, bytes) ==
    [tag |-> "ok", schema |-> Head(bytes), batches |-> Chunks(Tail(bytes), f.batch_size)]

WriteResult(f, in) == IF f.kind = "csv" THEN CsvWrite(f, in) ELSE ParquetWrite(f, in)
ReadResult(f, bytes) == IF f.kind = "csv" THEN CsvRead(f, bytes) ELSE ParquetRead(f, bytes)

Codecs(schema) ==
    [kind : {"csv"}, has_header : BOOLEAN, declared : {None, Some(schema)},
     batch_size : 1..MaxBatchSize]
    \cup [kind : {"parquet"}, has_header : {FALSE}, declared : {None},
          batch_size : 1..MaxBatchSize]

CodecInit ==
    /\ \E schema \in Schemas :
          /\ input \in [schema : {schema}, batches : BatchesOfSchema(schema)]
          /\ fmt \in Codecs(schema)
    /\ encoded = NoResult
    /\ decoded = NoResult

CodecIdle ==
    /\ fmt = None /\ input = <<>> /\ encoded = NoResult /\ decoded = NoResult

\* write_batches(stream of the input batches)
WriteBatches ==
    /\ encoded.tag = "none"
    /\ encoded' = WriteResult(fmt, input)
    /\ UNCHANGED <<fmt, input, decoded>>

\* read_batches(bytes returned by write_batches), collected
ReadBatches ==
    /\ encoded.tag = "ok" /\ decoded.tag = "none"
    /\ decoded' = ReadResult(fmt, encoded.bytes)
    /\ UNCHANGED <<fmt, input, encoded>>

CodecOnly == UNCHANGED <<streamVars, registryVars, pipelineVars, storageVars, poolVars, auxVars, moreVars>>

CodecNext ==
    \/ WriteBatches /\ CodecOnly
    \/ ReadBatches /\ CodecOnly

\* the rows of a batch sequence, each cell with the type of its column
TypedRows(schema, bs) ==
    LET rows == Flatten(bs) IN
      [k \in 1..Len(rows) |-> [i \in 1..Len(rows[k]) |-> <<schema[i], rows[k][i]>>]]

\* C10: for both formats and every batch sequence of one schema, write_batches
\* returns bytes, and decoding them yields the same rows in the same order.
C10_RoundTrip ==
    /\ encoded.tag # "none" => encoded.tag = "ok"
    /\ decoded.tag # "none" =>
          /\ decoded.tag = "ok"
          /\ TypedRows(decoded.schema, decoded.batches)
                = TypedRows(input.schema, input.batches)

\* C11: an input of 0 rows round-trips: for both formats, encoding a batch
\* sequence that carries no rows (no batch at all, or only empty batches)
\* succeeds, and decoding the bytes yields 0 rows.
C11_EmptyRoundTrip ==
    Flatten(input.batches) = <<>> =>
        /\ encoded.tag # "none" => encoded.tag = "ok"
        /\ decoded.tag # "none" =>
              (decoded.tag = "ok" /\ Flatten(decoded.batches) = <<>>)

(***************************************************************************)
(* The components below keep the variables above at their idle values.     *)
(***************************************************************************)
CoreIdle ==
    StreamIdle /\ RegistryIdle /\ PipelineIdle /\ StorageIdle /\ PoolIdle /\ CodecIdle
CoreOnly ==
    UNCHANGED <<streamVars, registryVars, pipelineVars, storageVars, poolVars, codecVars>>

(***************************************************************************)
(* Decode streams: CsvFormat::read_batches, ParquetFormat::read_batches    *)
(* and StreamingParquetReader (read_batches_from_stream)                   *)
(*                                                                         *)
(* The source of a decode stream is the arrow / parquet reader it wraps;   *)
(* an item of the reader is a batch, known by its schema, or an error.     *)
(***************************************************************************)
MaxDecodeItems == 2

ReaderBatch(schema) == [kind |-> "batch", schema |-> schema]
ReaderErr == [kind |-> "err", error |-> "decode"]
SchemaErr == [kind |-> "err", error |-> "schema"]
ReaderItems == {ReaderBatch(s) : s \in Schemas} \cup {ReaderErr}

\* CsvFormat::validate_schema(schema, batch): field count, then per-field type
ValidateSchema(schema, batch) ==
    /\ Len(schema) = Len(batch.schema)
    /\ \A i \in 1..Len(schema) : schema[i] = batch.schema[i]

\* the decode streams of the two formats
Decoders == {[kind |-> "csv", mode |-> "buffer"],
             [kind |-> "parquet", mode |-> "buffer"],
             [kind |-> "parquet", mode |-> "stream"]}

\* ParquetFormat::read_batches decodes against arrow_reader.schema(), the schema
\* of the file its batches come from; CsvFormat::read_batches against the
\* inferred or declared schema; StreamingParquetReader against the schema its
\* caller passes.
ReaderOutputs(d, against) ==
    IF d.kind = "parquet" /\ d.mode = "buffer"
    THEN SeqUpTo({ReaderBatch(against), ReaderErr}, MaxDecodeItems)
    ELSE SeqUpTo(ReaderItems, MaxDecodeItems)

DecodeInit ==
    \E d \in Decoders, against \in Schemas :
       \E src \in ReaderOutputs(d, against) :
          decoder = Some([kind |-> d.kind, mode |-> d.mode, against |-> against,
                          reader |-> src, pulled |-> 0, yielded |-> <<>>, ended |-> FALSE])

\* what the decode stream yields for an item of its reader:
\* csv_format.rs maps every item through validate_schema; the parquet streams
\* forward the reader's item (map_err only converts the error type)
DecodeItem(d, item) ==
    IF d.kind = "csv" /\ item.kind = "batch" /\ ~ValidateSchema(d.against, item)
    THEN SchemaErr
    ELSE item

\* poll_next of the decode stream: the reader has a next item
DecodePoll ==
    /\ decoder # None
    /\ LET d == decoder[1] IN
         /\ ~d.ended /\ d.pulled < Len(d.reader)
         /\ decoder' = Some([d EXCEPT !.pulled = @ + 1,
                                      !.yielded = Append(@, DecodeItem(d, d.reader[d.pulled + 1]))])
    /\ UNCHANGED <<encoder, localFs, opened, config, moreVars>>

\* poll_next of the decode stream: the reader is exhausted
DecodeEnd ==
    /\ decoder # None
    /\ LET d == decoder[1] IN
         /\ ~d.ended /\ d.pulled = Len(d.reader)
         /\ decoder' = Some([d EXCEPT !.ended = TRUE])
    /\ UNCHANGED <<encoder, localFs, opened, config, moreVars>>

DecodeNext ==
    \/ DecodePoll /\ CoreOnly
    \/ DecodeEnd /\ CoreOnly

\* C13: every batch a decode stream yields has the field count and per-field
\* types of the schema it decodes against, and a reader batch that differs is
\* replaced by a schema error, for each decode stream of both formats.
C13_DecodedBatchesConform ==
    decoder # None =>
        LET d == decoder[1] IN
          \A i \in 1..Len(d.yielded) :
             /\ d.yielded[i].kind = "batch" => ValidateSchema(d.against, d.yielded[i])
             /\ (d.reader[i].kind = "batch" /\ ~ValidateSchema(d.against, d.reader[i]))
                   => d.yielded[i] = SchemaErr

(***************************************************************************)
(* write_batches on an arbitrary batch stream (csv_format.rs,              *)
(* parquet_format.rs): items may be errors, batches may differ in schema   *)
(***************************************************************************)
MaxEncodeItems == 3

EncodeItems == {ReaderBatch(s) : s \in Schemas} \cup {ReaderErr}

\* batches.try_collect().await: the batches, or the first error of the stream
TryCollect(items) ==
    IF \E i \in 1..Len(items) : items[i].kind = "err" THEN None ELSE Some(items)

ValidateSkipped(schema, batch) == TRUE

\* SchemaInference::validate_schema (the default method): batch.schema() == schema
ValidateBatch(schema, batch) == batch.schema = schema

\* ArrowWriter::write(batch): the arrow writer refuses a batch whose schema is
\* not the schema it was created with
ArrowWriterAccepts(schema, batch) == batch.schema = schema

\* the write loop: validate_schema(..)? then writer.write(..)? (CSV);
\* writer.write(..)? (Parquet). TRUE when every batch is written.
RECURSIVE WriteLoop(_, _, _)
WriteLoop(kind, schema, bs) ==
    IF bs = <<>> THEN TRUE
    ELSE IF kind = "csv" /\ ~ValidateBatch(schema, Head(bs)) THEN FALSE
    ELSE IF kind = "parquet" /\ ~ArrowWriterAccepts(schema, Head(bs)) THEN FALSE
    ELSE WriteLoop(kind, schema, Tail(bs))

\* write_batches of either format
WriteBatchesResult(kind, items) ==
    LET collected == TryCollect(items) IN
      IF collected = None THEN [tag |-> "err"]
      ELSE IF collected[1] = <<>> THEN [tag |-> "err"]
      ELSE LET schema == collected[1][1].schema IN
             IF WriteLoop(kind, schema, collected[1])
             THEN [tag |-> "ok", schema |-> schema, batches |-> Len(collected[1])]
             ELSE [tag |-> "err"]

EncodeInit ==
    \E kind \in {"csv", "parquet"}, items \in SeqUpTo(EncodeItems, MaxEncodeItems) :
       encoder = Some([kind |-> kind, items |-> items, result |-> [tag |-> "none"]])

\* the call of write_batches on the stream
EncodeCall ==
    /\ encoder # None
    /\ encoder[1].result.tag = "none"
    /\ encoder' = Some([encoder[1] EXCEPT
                          !.result = WriteBatchesResult(encoder[1].kind, encoder[1].items)])
    /\ UNCHANGED <<decoder, localFs, opened, config, moreVars>>

EncodeNext == EncodeCall /\ CoreOnly

\* the stream carries an error item, or a batch whose schema is not the first one's
Uneven(items) ==
    \/ \E i \in 1..Len(items) : items[i].kind = "err"
    \/ \E i \in 2..Len(items) : items[i].schema # items[1].schema

\* C14: write_batches takes the schema of the first batch as the output schema;
\* when a later batch has another schema or the stream carries an error item it
\* returns an error and no bytes, for both formats.
C14_EncodeRejectsUneven ==
    (encoder # None /\ encoder[1].result.tag # "none") =>
        LET e == encoder[1] IN
          /\ Uneven(e.items) => e.result = [tag |-> "err"]
          /\ e.result.tag = "ok" => e.result.schema = e.items[1].schema

\* a Parquet encode of an error-free stream whose second batch differs was refused
C14_Witness ==
    /\ encoder # None
    /\ encoder[1].kind = "parquet"
    /\ encoder[1].result.tag = "err"
    /\ TryCollect(encoder[1].items) # None
    /\ Len(encoder[1].items) >= 2
    /\ encoder[1].items[2].schema # encoder[1].items[1].schema

(***************************************************************************)
(* LocalStorage over a base directory (storage/local.rs): sequential put,  *)
(* get and list calls on paths                                             *)
(*                                                                         *)
(* A path is the sequence of its '/'-separated segments; a leading '/'     *)
(* shows as a leading empty segment. A location is the sequence of         *)
(* directory names from the file system root to a file or directory.       *)
(***************************************************************************)
MaxFsCalls == 3

Base == <<"base">>
FsData == {<<>>, <<1>>, <<2>>}
FsPaths == { <<"a.txt">>,
             <<"", "absolute", "path.txt">>,
             <<"absolute", "path.txt">>,
             <<"nested", "path", "test.txt">>,
             <<"nested">>,
             <<"..", "outside.txt">> }
FsPrefixes == {None, Some(<<"nested">>), Some(<<"nested", "path">>), Some(<<"", "absolute">>)}

\* path.trim_start_matches('/')
RECURSIVE TrimStart(_)
TrimStart(segs) ==
    IF segs # <<>> /\ Head(segs) = "" THEN TrimStart(Tail(segs)) ELSE segs

\* LocalStorage::resolve_path: self.base_path.join(path.trim_start_matches('/'))
ResolvePath(path) == Base \o TrimStart(path)

\* the location the operating system reaches by walking a path from the root
RECURSIVE Walk(_, _)
Walk(at, segs) ==
    IF segs = <<>> THEN at
    ELSE IF Head(segs) = ".."
         THEN Walk(IF at = <<>> THEN at ELSE SubSeq(at, 1, Len(at) - 1), Tail(segs))
         ELSE Walk(Append(at, Head(segs)), Tail(segs))
Locate(fp) == Walk(<<>>, fp)

\* Path::parent
Parent(fp) == SubSeq(fp, 1, Len(fp) - 1)
Prefixes(loc) == {SubSeq(loc, 1, k) : k \in 0..Len(loc)}
IsPrefix(a, b) == Len(a) <= Len(b) /\ SubSeq(b, 1, Len(a)) = a
InsideBase(loc) == IsPrefix(Base, loc)

OkResult(v) == [tag |-> "ok", value |-> v]
FsErr == [tag |-> "err"]
NoFiles == [loc \in {} |-> <<>>]

\* LocalStorage::new(base): create_dir_all(base). Files outside the base
\* directory may exist; none has been put.
LocalInit ==
    \E files \in {NoFiles, [loc \in {<<"outside.txt">>} |-> <<1>>]} :
       localFs = Some([files |-> files, dirs |-> Prefixes(Base), stored |-> NoFiles,
                       touched |-> {}, call |-> [op |-> "new"], calls |-> 0])

\* fs::create_dir_all(dir): fails when a file is in the way
CreateDirAllOk(files, dloc) == \A q \in Prefixes(dloc) : q \notin DOMAIN files

\* LocalStorage::put(path, data)
LocalPut(path, bytes) ==
    /\ localFs # None /\ localFs[1].calls < MaxFsCalls
    /\ LET fs == localFs[1]
           file_path == ResolvePath(path)
           loc == Locate(file_path)
           parent == Locate(Parent(file_path))
           made == CreateDirAllOk(fs.files, parent)
           dirs2 == IF made THEN fs.dirs \cup Prefixes(parent) ELSE fs.dirs
           written == made /\ loc \notin dirs2
       IN localFs' = Some([fs EXCEPT
             !.dirs = dirs2,
             !.files = IF written
                       THEN [q \in DOMAIN fs.files \cup {loc} |->
                                IF q = loc THEN bytes ELSE fs.files[q]]
                       ELSE @,
             !.stored = IF written
                        THEN [k \in DOMAIN fs.stored \cup {TrimStart(path)} |->
                                 IF k = TrimStart(path) THEN bytes ELSE fs.stored[k]]
                        ELSE @,
             !.touched = IF written THEN @ \cup {loc} ELSE @,
             !.call = [op |-> "put", path |-> path,
                       result |-> IF written THEN OkResult(<<>>) ELSE FsErr],
             !.calls = @ + 1])
    /\ UNCHANGED <<decoder, encoder, opened, config, moreVars>>

\* LocalStorage::get(path)
LocalGet(path) ==
    /\ localFs # None /\ localFs[1].calls < MaxFsCalls
    /\ LET fs == localFs[1]
           loc == Locate(ResolvePath(path))
           found == loc \in DOMAIN fs.files
       IN localFs' = Some([fs EXCEPT
             !.touched = IF found THEN @ \cup {loc} ELSE @,
             !.call = [op |-> "get", path |-> path,
                       result |-> IF found THEN OkResult(fs.files[loc]) ELSE FsErr],
             !.calls = @ + 1])
    /\ UNCHANGED <<decoder, encoder, opened, config, moreVars>>

\* the keys LocalStorage::list pushes: the files that are direct entries of the
\* directory, each as entry.path().strip_prefix(base_path)
ListEntries(fs, base_dir) ==
    LET dloc == Locate(base_dir) IN
      { SubSeq(base_dir, Len(Base) + 1, Len(base_dir)) \o <<loc[Len(loc)]>> :
           loc \in {q \in DOMAIN fs.files : Len(q) = Len(dloc) + 1 /\ IsPrefix(dloc, q)} }

\* LocalStorage::list(prefix)
LocalList(prefix) ==
    /\ localFs # None /\ localFs[1].calls < MaxFsCalls
    /\ LET fs == localFs[1]
           base_dir == IF prefix = None THEN Base ELSE ResolvePath(prefix[1])
       IN localFs' = Some([fs EXCEPT
             !.call = [op |-> "list", prefix |-> prefix,
                       result |-> IF Locate(base_dir) \in fs.dirs
                                  THEN OkResult(ListEntries(fs, base_dir))
                                  ELSE FsErr],
             !.calls = @ + 1])
    /\ UNCHANGED <<decoder, encoder, opened, config, moreVars>>

LocalNext ==
    \/ (\E path \in FsPaths, bytes \in FsData : LocalPut(path, bytes)) /\ CoreOnly
    \/ (\E path \in FsPaths : LocalGet(path)) /\ CoreOnly
    \/ (\E prefix \in FsPrefixes : LocalList(prefix)) /\ CoreOnly

HasDotDot(path) == \E i \in 1..Len(path) : path[i] = ".."

\* C16: the local backend reads and writes no file outside its base directory:
\* put or get of a path with a `..` segment returns an error (and touches no
\* file), and a path with a leading separator resolves inside the base directory.
C16_ConfinedToBase ==
    localFs # None =>
        LET fs == localFs[1] IN
          /\ \A loc \in fs.touched : InsideBase(loc)
          /\ (fs.call.op \in {"put", "get"} /\ HasDotDot(fs.call.path))
                => fs.call.result = FsErr

\* C17: after put(path, data) succeeds get(path) returns exactly data (the
\* latest data put there, empty or not, nested or not), and get of a path that
\* was never put returns an error.
C17_GetReturnsPut ==
    (localFs # None /\ localFs[1].call.op = "get") =>
        LET fs == localFs[1]
            key == TrimStart(fs.call.path) IN
          IF key \in DOMAIN fs.stored
          THEN fs.call.result = OkResult(fs.stored[key])
          ELSE fs.call.result = FsErr

\* C18: after put succeeds for a path nested in sub-directories, list(None) and
\* list(prefix) for every directory prefix of that path yield the key of the
\* object (a listing is a set of keys: no key twice).
C18_ListYieldsNestedKeys ==
    (localFs # None /\ localFs[1].call.op = "list") =>
        LET fs == localFs[1]
            pre == IF fs.call.prefix = None THEN <<>> ELSE TrimStart(fs.call.prefix[1]) IN
          \A key \in DOMAIN fs.stored :
             (~HasDotDot(key) /\ Len(key) >= 2 /\ Len(pre) < Len(key) /\ IsPrefix(pre, key)) =>
                (fs.call.result.tag = "ok" /\ key \in fs.call.result.value)

(***************************************************************************)
(* storage::from_url (storage/mod.rs)                                      *)
(*                                                                         *)
(* A URL is None when url::Url::parse fails, else its scheme and           *)
(* host_str(); the environment is the set of variables that are set.       *)
(***************************************************************************)
Schemes == {"file", "s3", "azure", "invalid"}
Urls == {None} \cup {Some([scheme |-> sc, host |-> h]) :
                       sc \in Schemes, h \in {None, Some("bucket")}}
EnvNames == {"AWS_REGION", "AWS_ACCESS_KEY_ID", "AWS_SECRET_ACCESS_KEY",
             "AZURE_STORAGE_ACCOUNT", "AZURE_STORAGE_ACCESS_KEY"}

EnvVarAlwaysSet(env, name) == TRUE

\* std::env::var(name) is Ok
EnvVar(env, name) == name \in env

UrlErr == [tag |-> "err"]
Backend(kind) == [tag |-> "ok", backend |-> kind]

\* from_url(url); built: whether the object_store builder's build() succeeds
FromUrlResult(url, env, built) ==
    IF url = None THEN UrlErr
    ELSE LET scheme == url[1].scheme
             host == url[1].host IN
      IF scheme = "file" THEN Backend("local")
      ELSE IF scheme = "s3" THEN
             IF host = None THEN UrlErr
             ELSE IF ~EnvVar(env, "AWS_ACCESS_KEY_ID") THEN UrlErr
             ELSE IF ~EnvVar(env, "AWS_SECRET_ACCESS_KEY") THEN UrlErr
             ELSE IF ~built THEN UrlErr
             ELSE Backend("s3")
      ELSE IF scheme = "azure" THEN
             IF host = None THEN UrlErr
             ELSE IF ~EnvVar(env, "AZURE_STORAGE_ACCOUNT") THEN UrlErr
             ELSE IF ~EnvVar(env, "AZURE_STORAGE_ACCESS_KEY") THEN UrlErr
             ELSE IF ~built THEN UrlErr
             ELSE Backend("azure")
      ELSE UrlErr

UrlInit ==
    \E url \in Urls, env \in SUBSET EnvNames :
       opened = Some([url |-> url, env |-> env, result |-> [tag |-> "none"]])

\* the call from_url(url)
FromUrl ==
    /\ opened # None
    /\ opened[1].result.tag = "none"
    /\ \E built \in BOOLEAN :
          opened' = Some([opened[1] EXCEPT
                            !.result = FromUrlResult(opened[1].url, opened[1].env, built)])
    /\ UNCHANGED <<decoder, encoder, localFs, config, moreVars>>

UrlNext == FromUrl /\ CoreOnly

MaxSize == 1

CompressionNames ==
    {"uncompressed", "snappy", "gzip", "brotli", "lz4", "zstd", "none", "lzo"}
\* the numeric fields validate_formats tests, in the order it tests them
SizeFields ==
    <<"csv.batch_size", "csv.schema_sample_size", "csv.max_sample_bytes",
      "parquet.batch_size", "parquet.row_group_size", "parquet.page_size",
      "parquet.dictionary_page_size",
      "default.batch_size", "default.schema_sample_size">>
SizeNames == {SizeFields[i] : i \in 1..Len(SizeFields)}

\* the match on config.parquet.compression in validate_formats
CompressionAccepted(name) ==
    name \in {"snappy", "gzip", "brotli", "lz4", "zstd", "none"}

\* validate_formats(config.formats): every size is non-zero and the compression
\* name is accepted
ValidateFormats(c) ==
    IF \E f \in SizeNames : c.sizes[f] = 0 THEN "err"
    ELSE IF ~CompressionAccepted(c.compression) THEN "err"
    ELSE "ok"

\* the match on self.config.compression in ParquetFormat::write_batches
WriterCompression(name) ==
    IF name = "snappy" THEN "SNAPPY"
    ELSE IF name = "gzip" THEN "GZIP"
    ELSE IF name = "brotli" THEN "BROTLI"
    ELSE IF name = "lz4" THEN "LZ4"
    ELSE IF name = "zstd" THEN "ZSTD"
    ELSE "UNCOMPRESSED"

ConfigInit ==
    \E name \in CompressionNames, sizes \in [SizeNames -> 0..MaxSize] :
       config = Some([compression |-> name, sizes |-> sizes,
                      verdict |-> "none", written |-> "none"])

\* validate_config reaches validate_formats
Validate ==
    /\ config # None /\ config[1].verdict = "none"
    /\ config' = Some([config[1] EXCEPT !.verdict = ValidateFormats(config[1])])
    /\ UNCHANGED <<decoder, encoder, localFs, opened, moreVars>>

\* ParquetFormat::write_batches builds its WriterProperties
BuildWriterProperties ==
    /\ config # None /\ config[1].written = "none"
    /\ config' = Some([config[1] EXCEPT !.written = WriterCompression(config[1].compression)])
    /\ UNCHANGED <<decoder, encoder, localFs, opened, moreVars>>

ConfigNext ==
    \/ Validate /\ CoreOnly
    \/ BuildWriterProperties /\ CoreOnly

\* the compression each name of the closed set stands for
NamedCompression ==
    [name \in {"uncompressed", "snappy", "gzip", "brotli", "lz4", "zstd"} |->
        IF name = "uncompressed" THEN "UNCOMPRESSED"
        ELSE IF name = "snappy" THEN "SNAPPY"
        ELSE IF name = "gzip" THEN "GZIP"
        ELSE IF name = "brotli" THEN "BROTLI"
        ELSE IF name = "lz4" THEN "LZ4"
        ELSE "ZSTD"]

\* C20: validation accepts the compression name iff it is one of uncompressed,
\* snappy, gzip, brotli, lz4, zstd (the other fields being valid), and every
\* accepted name is written with that same compression by the encoder.
C20_CompressionClosedSet ==
    (config # None /\ config[1].verdict # "none"
       /\ \A f \in SizeNames : config[1].sizes[f] # 0) =>
        LET c == config[1] IN
          /\ c.verdict = "ok" <=> c.compression \in DOMAIN NamedCompression
          /\ (c.verdict = "ok" /\ c.written # "none")
                => (c.compression \in DOMAIN NamedCompression
                      /\ c.written = NamedCompression[c.compression])

(***************************************************************************)
(* The components below keep the variables of auxVars idle as well.        *)
(***************************************************************************)
BaseIdle ==
    /\ CoreIdle
    /\ decoder = None /\ encoder = None /\ localFs = None /\ opened = None /\ config = None
BaseOnly ==
    UNCHANGED <<streamVars, registryVars, pipelineVars, storageVars, poolVars, codecVars,
                auxVars>>

(***************************************************************************)
(* Plugin configuration validation (validation.rs validate_plugins)        *)
(***************************************************************************)
MaxSecs == 2

\* what config.plugin_dir names: nothing there, a file, or a directory
PluginDirs == {None, Some("missing"), Some("file"), Some("dir")}

PluginConfigs ==
    [enable_plugins : BOOLEAN, plugin_dir : PluginDirs, load_timeout_secs : 0..MaxSecs,
     enable_hot_reload : BOOLEAN, hot_reload_interval_secs : 0..MaxSecs]

\* the test of the hot-reload fields in validate_plugins
HotReloadRejected(c) == c.enable_hot_reload /\ c.hot_reload_interval_secs = 0

\* the tests of validate_plugins that come before the hot-reload test
PluginDirRejected(c) ==
    c.enable_plugins /\ (c.plugin_dir = None \/ c.plugin_dir[1] # "dir")
LoadTimeoutRejected(c) == c.load_timeout_secs = 0

\* validate_plugins(config.plugins)
ValidatePlugins(c) ==
    IF PluginDirRejected(c) THEN "err"
    ELSE IF LoadTimeoutRejected(c) THEN "err"
    ELSE IF HotReloadRejected(c) THEN "err"
    ELSE "ok"

PluginConfigInit ==
    \E c \in PluginConfigs : pluginConfig = Some([fields |-> c, verdict |-> "none"])

\* validate_config reaches validate_plugins
ValidatePluginConfig ==
    /\ pluginConfig # None /\ pluginConfig[1].verdict = "none"
    /\ pluginConfig' = Some([pluginConfig[1] EXCEPT
                               !.verdict = ValidatePlugins(pluginConfig[1].fields)])
    /\ UNCHANGED <<manager, parquetReader, inference, syncReader>>

PluginConfigNext == ValidatePluginConfig /\ BaseOnly

\* C21: validation succeeds on the hot-reload fields (the other plugin fields
\* being valid) iff the interval is positive exactly when hot reload is enabled.
C21_HotReloadIff ==
    (pluginConfig # None /\ pluginConfig[1].verdict # "none"
       /\ ~PluginDirRejected(pluginConfig[1].fields)
       /\ ~LoadTimeoutRejected(pluginConfig[1].fields)) =>
        LET c == pluginConfig[1].fields IN
          pluginConfig[1].verdict = "ok"
             <=> ((c.hot_reload_interval_secs > 0) <=> c.enable_hot_reload)

(***************************************************************************)
(* PluginManager (plugin.rs): load_plugins over a plugin directory and the *)
(* drop of the manager                                                     *)
(***************************************************************************)
MaxDirEntries == 3

\* An entry of the plugin directory: the library file, whether its extension is
\* DLL_EXTENSION, whether Library::new opens it and whether it exports
\* create_plugin.
DirEntries ==
    {l @@ [dll |-> TRUE, opens |-> o, symbol |-> y] :
        l \in Libraries, o \in BOOLEAN, y \in BOOLEAN}
    \cup {[lib |-> "README", name |-> "", exts |-> {}, dll |-> FALSE,
           opens |-> FALSE, symbol |-> FALSE]}

\* std::fs::read_dir(plugin_dir): the entries in the order the directory gives
\* them, one entry per file name
Directories ==
    {d \in SeqUpTo(DirEntries, MaxDirEntries) :
        \A i, j \in 1..Len(d) : i # j => d[i].lib # d[j].lib}

LoadsAlways(e) == TRUE

\* Library::new(path)? and library.get(b"create_plugin")? both succeed
Loads(e) == e.opens /\ e.symbol

\* PluginManager::load_plugin on one entry: the registry and the library list
\* after it, or None when it returns an error
LoadPluginResult(reg, libs, e) ==
    IF ~Loads(e) THEN None
    ELSE Some([reg |-> Insert(reg, e.name, [lib |-> e.lib, name |-> e.name, exts |-> e.exts]),
               libs |-> Append(libs, e.lib)])

\* PluginManager::load_plugins: the loop over the entries, left at the first error
RECURSIVE LoadPluginsResult(_, _, _)
LoadPluginsResult(reg, libs, entries) ==
    IF entries = <<>> THEN [reg |-> reg, libs |-> libs, result |-> "ok"]
    ELSE IF ~Head(entries).dll THEN LoadPluginsResult(reg, libs, Tail(entries))
    ELSE LET r == LoadPluginResult(reg, libs, Head(entries)) IN
           IF r = None THEN [reg |-> reg, libs |-> libs, result |-> "err"]
           ELSE LoadPluginsResult(r[1].reg, r[1].libs, Tail(entries))

\* PluginManager::new(plugin_dir)
ManagerInit ==
    \E d \in Directories : manager = Some([dir |-> d, alive |-> TRUE, result |-> "none"])

\* manager.load_plugins()
LoadPlugins ==
    /\ manager # None /\ manager[1].alive /\ manager[1].result = "none"
    /\ LET r == LoadPluginsResult(plugins, loaded, manager[1].dir) IN
         /\ plugins' = r.reg
         /\ loaded' = r.libs
         /\ manager' = Some([manager[1] EXCEPT !.result = r.result])
    /\ UNCHANGED <<formats, lookup>>

\* the PluginManager goes out of scope: its loaded_libraries: Vec<Library> is
\* dropped and every Library in it is unloaded; PLUGIN_REGISTRY is a static
DropManager ==
    /\ manager # None /\ manager[1].alive
    /\ manager' = Some([manager[1] EXCEPT !.alive = FALSE])
    /\ loaded' = <<>>
    /\ UNCHANGED <<formats, plugins, lookup>>

ManagerOnly ==
    UNCHANGED <<streamVars, pipelineVars, storageVars, poolVars, codecVars, auxVars,
                pluginConfig, parquetReader, inference, syncReader>>

ManagerNext ==
    \/ LoadPlugins /\ ManagerOnly
    \/ DropManager /\ ManagerOnly

LoadedLibraries == {loaded[i] : i \in 1..Len(loaded)}
RegisteredLibraries == {plugins[n].lib : n \in DOMAIN plugins}

\* C22: the library of every plugin reachable through the plugin registry is
\* loaded: no operation, dropping the PluginManager included, unloads it.
C22_LibrariesStayLoaded ==
    manager # None => RegisteredLibraries \subseteq LoadedLibraries

\* the position of the first library of the directory that fails to load, 0 if none
FirstFailure(d) ==
    IF \E i \in 1..Len(d) : d[i].dll /\ ~(d[i].opens /\ d[i].symbol)
    THEN CHOOSE i \in 1..Len(d) :
            /\ d[i].dll /\ ~(d[i].opens /\ d[i].symbol)
            /\ \A j \in 1..(i - 1) : ~d[j].dll \/ (d[j].opens /\ d[j].symbol)
    ELSE 0

\* C29: load_plugins returns an error exactly when a library fails to open or to
\* resolve create_plugin; the failing library (and every one after it) adds no
\* entry to the plugin registry and the plugins of the libraries processed
\* before it stay registered.
C29_LoadPluginsStopsAtFailure ==
    (manager # None /\ manager[1].result # "none") =>
        LET d == manager[1].dir
            k == FirstFailure(d) IN
          /\ manager[1].result = "err" <=> k # 0
          /\ k # 0 =>
                /\ \A i \in k..Len(d) : d[i].lib \notin RegisteredLibraries
                /\ \A i \in 1..(k - 1) : d[i].dll => d[i].name \in DOMAIN plugins

\* load_plugins failed on a later library after registering an earlier one
C29_Witness ==
    /\ manager # None /\ manager[1].result = "err"
    /\ FirstFailure(manager[1].dir) >= 2
    /\ DOMAIN plugins # {}

(***************************************************************************)
(* StreamingParquetReader::poll_next (parquet_format.rs)                   *)
(*                                                                         *)
(* A file is the sequence of its row groups, each the number of its rows;  *)
(* it is FileLen bytes long and its footer is readable once all of them    *)
(* are in the buffer. The byte stream is the sequence of its chunk sizes.  *)
(***************************************************************************)
FileLen == 2
MaxRowGroups == 2
MaxGroupRows == 3
MaxChunks == 3
MaxReadBatch == 2

ParquetFiles == SeqUpTo(0..MaxGroupRows, MaxRowGroups)

RECURSIVE SumOf(_)
SumOf(q) == IF q = <<>> THEN 0 ELSE Head(q) + SumOf(Tail(q))

\* a finite error-free stream of the bytes of the file, or of a prefix of them,
\* cut into chunks (a chunk may be empty)
ChunkStreams == {c \in SeqUpTo(0..FileLen, MaxChunks) : SumOf(c) <= FileLen}

\* SerializedFileReader::new(Cursor::new(&buffer)) is Ok
FooterReadable(r) == r.buffered = FileLen

\* ParquetRecordBatchReader::try_new(.., Some(&[row_groups_read]), ..) is Ok:
\* the file has a row group of that index
RowGroupReadable(r) == r.row_groups_read < Len(r.file)

SameRowGroup(n) == n

\* *this.row_groups_read += 1
NextRowGroup(n) == n + 1

\* arrow_reader.into_iter().next(): the first batch of the row group, at most
\* batch_size rows of it
FirstBatch(r) ==
    LET rows == r.file[r.row_groups_read + 1] IN
      [group |-> r.row_groups_read,
       rows |-> IF rows <= r.batch_size THEN rows ELSE r.batch_size]

\* StreamingParquetReader::new
NewReader(groups, batch_size, chunks) ==
    [file |-> groups, batch_size |-> batch_size, chunks |-> chunks, buffered |-> 0,
     row_groups_read |-> 0, total_row_groups |-> 0, yielded |-> <<>>, status |-> "open",
     written |-> None]

\* One call of poll_next: the loop, until it returns. status "done" when it
\* returns Ready(None); "hung" when the loop can never return: the byte stream
\* is exhausted, the buffer is not empty and the test at the head of the loop
\* fails, so every iteration polls the finished stream and continues.
RECURSIVE PollLoop(_)
PollLoop(r) ==
    IF r.row_groups_read >= r.total_row_groups /\ r.total_row_groups > 0
    THEN [r EXCEPT !.status = "done"]
    ELSE IF r.chunks = <<>>
    THEN IF r.buffered = 0 THEN [r EXCEPT !.status = "done"]
         ELSE [r EXCEPT !.status = "hung"]
    ELSE LET b == [r EXCEPT !.buffered = @ + Head(r.chunks), !.chunks = Tail(@)] IN
           IF b.total_row_groups = 0 /\ ~FooterReadable(b) THEN PollLoop(b)
           ELSE LET t == IF b.total_row_groups = 0
                         THEN [b EXCEPT !.total_row_groups = Len(b.file)] ELSE b IN
                  IF FooterReadable(t) /\ RowGroupReadable(t)
                  THEN LET n == [t EXCEPT !.row_groups_read = NextRowGroup(@)] IN
                         IF t.file[t.row_groups_read + 1] > 0
                         THEN [n EXCEPT !.yielded = Append(@, FirstBatch(t))]
                         ELSE PollLoop(n)
                  ELSE PollLoop(t)

ParquetReaderInit ==
    \E groups \in ParquetFiles, batch_size \in 1..MaxReadBatch, chunks \in ChunkStreams :
       parquetReader = Some(NewReader(groups, batch_size, chunks))

\* the consumer polls the reader
ReaderPoll ==
    /\ parquetReader # None /\ parquetReader[1].status = "open"
    /\ parquetReader' = Some(PollLoop(parquetReader[1]))
    /\ UNCHANGED <<pluginConfig, manager, inference, syncReader>>

\* for batch in batches { writer.write(&batch) }: the write loop of both
\* encoders, the batches as the writer receives them
RECURSIVE WriteEach(_)
WriteEach(q) ==
    IF q = <<>> THEN <<>> ELSE <<Head(q)>> \o WriteEach(Tail(q))

\* the consumer encodes the batches of the ended stream (write_batches)
ReaderWrite ==
    /\ parquetReader # None /\ parquetReader[1].status = "done"
    /\ parquetReader[1].written = None
    /\ parquetReader' = Some([parquetReader[1] EXCEPT
                                 !.written = Some(WriteEach(parquetReader[1].yielded))])
    /\ UNCHANGED <<pluginConfig, manager, inference, syncReader>>

ParquetReaderNext ==
    \/ ReaderPoll /\ BaseOnly
    \/ ReaderWrite /\ BaseOnly

\* the rows the reader has yielded of each row group
YieldedOf(r, g) ==
    SumOf([i \in 1..Len(r.yielded) |->
              IF r.yielded[i].group = g THEN r.yielded[i].rows ELSE 0])

\* C23: for every finite error-free chunk stream the reader eventually yields
\* end-of-stream.
C23_ReaderEnds ==
    <>(parquetReader # None /\ parquetReader[1].status = "done")

\* C24: when the whole file has been delivered and the reader can yield nothing
\* more, it has yielded every row of every row group.
C24_EveryRowYielded ==
    (parquetReader # None /\ parquetReader[1].status \in {"done", "hung"}
       /\ parquetReader[1].buffered = FileLen) =>
        \A g \in 1..Len(parquetReader[1].file) :
           YieldedOf(parquetReader[1], g - 1) = parquetReader[1].file[g]

\* C25: the reader emits row groups in strictly increasing index order, each
\* index at most once, row_groups_read never exceeds total_row_groups once
\* the footer is known, and the encoder writes the batches in the order the
\* stream delivered them.
C25_RowGroupOrder ==
    parquetReader # None =>
        LET r == parquetReader[1] IN
          /\ \A i, j \in 1..Len(r.yielded) : i < j => r.yielded[i].group < r.yielded[j].group
          /\ r.total_row_groups > 0 => r.row_groups_read <= r.total_row_groups
          /\ r.written # None => r.written[1] = r.yielded

\* both row groups of a file have been emitted, one after the other, and
\* written
C25_Witness ==
    /\ parquetReader # None
    /\ parquetReader[1].written # None
    /\ Len(parquetReader[1].yielded) = 2
    /\ parquetReader[1].yielded[1].group = 0
    /\ parquetReader[1].yielded[2].group = 1

(***************************************************************************)
(* CsvFormat::infer_schema over arbitrary records (csv_format.rs)          *)
(*                                                                         *)
(* The reader is flexible: a record may have fewer or more fields than the *)
(* first one.                                                              *)
(***************************************************************************)
MaxInferLines == 3
MaxFields == 2
SampleSize == 1000

InferTexts == {"", "1", "1.5", "x"}
InferRecords == UNION {[1..n -> InferTexts] : n \in 1..MaxFields}
InferInputs == SeqUpTo(InferRecords, MaxInferLines)

\* reader.headers() when has_header, else Vec::new()
Headers(f, lines) == IF f.has_header /\ lines # <<>> THEN Head(lines) ELSE <<>>

\* for result in reader.records(): at most sample_size of them
Sampled(recs) == IF Len(recs) <= SampleSize THEN recs ELSE SubSeq(recs, 1, SampleSize)

\* columns[i]: the i-th field of every sampled record that has one
RECURSIVE ColumnValues(_, _)
ColumnValues(recs, i) ==
    IF recs = <<>> THEN <<>>
    ELSE (IF i <= Len(Head(recs)) THEN <<Head(recs)[i]>> ELSE <<>>)
            \o ColumnValues(Tail(recs), i)

\* format!("column_{}", i)
ColumnName(i) == IF i = 0 THEN "column_0" ELSE "column_1"

\* CsvFormat::infer_schema with no declared schema: one field per field of the
\* first sampled record
InferSchemaResult(f, lines) ==
    LET headers == Headers(f, lines)
        recs == Sampled(Records(f, lines))
        column_count == IF recs = <<>> THEN 0 ELSE Len(recs[1])
    IN [i \in 1..column_count |->
          [name |-> IF f.has_header /\ i - 1 < Len(headers) THEN headers[i]
                    ELSE ColumnName(i - 1),
           data_type |-> InferFieldType(ColumnValues(recs, i))]]

InferenceInit ==
    \E h \in BOOLEAN, lines \in InferInputs :
       inference = Some([has_header |-> h, lines |-> lines, result |-> None])

InferSchema ==
    /\ inference # None /\ inference[1].result = None
    /\ inference' = Some([inference[1] EXCEPT
                             !.result = Some(InferSchemaResult(inference[1], inference[1].lines))])
    /\ UNCHANGED <<pluginConfig, manager, parquetReader, syncReader>>

InferenceNext == InferSchema /\ BaseOnly

\* the rows below the header row
DataRows(r) == IF r.has_header /\ r.lines # <<>> THEN Tail(r.lines) ELSE r.lines

\* the values of column i in the data rows
DataValues(r, i) ==
    LET rows == DataRows(r) IN
      {rows[k][i] : k \in {k \in 1..Len(rows) : i <= Len(rows[k])}}

\* the rule of the specification
RuleType(values) ==
    LET nonEmpty == values \ {""} IN
      IF nonEmpty # {} /\ \A v \in nonEmpty : ParsesInt(v) THEN "Int64"
      ELSE IF nonEmpty # {} /\ \A v \in nonEmpty : ParsesFloat(v) THEN "Float64"
      ELSE "Utf8"

\* C28: every column of the inferred schema has the type the rule gives for
\* the values of that column in the data rows: Int64 iff some value is
\* non-empty and all non-empty values parse as i64, else Float64 iff some
\* value is non-empty and all non-empty values parse as f64, else Utf8; the
\* header row gives the names and is not among the values.
C28_InferenceRule ==
    (inference # None /\ inference[1].result # None) =>
        LET r == inference[1]
            fields == r.result[1] IN
          \A i \in 1..Len(fields) :
             /\ fields[i].data_type = RuleType(DataValues(r, i))
             /\ (r.has_header /\ i <= Len(Head(r.lines))) => fields[i].name = Head(r.lines)[i]

\* a header that does not parse as a number above a column of integers and
\* empty values, inferred as Int64
C28_Witness ==
    /\ inference # None /\ inference[1].result # None
    /\ inference[1].has_header
    /\ inference[1].lines = <<<<"x">>, <<"1">>, <<"">>>>
    /\ inference[1].result[1][1].data_type = "Int64"

(***************************************************************************)
(* SyncReader: Read, Seek and ChunkReader over Bytes (main.rs)             *)
(*                                                                         *)
(* usize, u64 and i64 are words of Word values: unsigned 0..Word-1, signed *)
(* -Word/2..Word/2-1. A build checks arithmetic overflow (it panics) or    *)
(* does not (it wraps).                                                    *)
(***************************************************************************)
Word == 16
MaxData == 2
MaxBuf == 2
MaxOffset == 2

SyncData == SeqUpTo(0..1, MaxData)
Builds == {"checked", "wrapping"}
Panic == [tag |-> "panic"]

\* u64 as i64, usize as i64
AsSigned(u) == IF u >= Word \div 2 THEN u - Word ELSE u

\* a + b on i64: None when the build panics on overflow
SignedAdd(build, a, b) ==
    LET sum == a + b IN
      IF sum >= -(Word \div 2) /\ sum < Word \div 2 THEN Some(sum)
      ELSE IF build = "checked" THEN None
      ELSE Some(AsSigned(sum % Word))

\* a - b on usize: None when the build panics on overflow
UnsignedSub(build, a, b) ==
    IF a >= b THEN Some(a - b)
    ELSE IF build = "checked" THEN None
    ELSE Some((a - b) % Word)

Min(a, b) == IF a <= b THEN a ELSE b

\* SyncReader::read(buf) with buf.len() = n: the result and the new position.
\* The slice self.data[pos..pos + amount] panics when it is not inside data.
SyncReadResult(r, n) ==
    LET available == UnsignedSub(r.build, Len(r.data), r.pos) IN
      IF available = None THEN [result |-> Panic, pos |-> r.pos]
      ELSE LET amount == Min(n, available[1]) IN
             IF amount = 0 THEN [result |-> [tag |-> "ok", bytes |-> <<>>], pos |-> r.pos]
             ELSE IF r.pos + amount > Len(r.data) THEN [result |-> Panic, pos |-> r.pos]
             ELSE [result |-> [tag |-> "ok",
                               bytes |-> SubSeq(r.data, r.pos + 1, r.pos + amount)],
                   pos |-> r.pos + amount]

\* the new_pos of SyncReader::seek: None when the addition panics
SeekTarget(r, from, offset) ==
    IF from = "Start" THEN Some(AsSigned(offset))
    ELSE IF from = "End" THEN SignedAdd(r.build, AsSigned(Len(r.data)), offset)
    ELSE SignedAdd(r.build, AsSigned(r.pos), offset)

\* SyncReader::get_bytes(start, length)
GetBytesResult(r, start, length) ==
    IF start + length >= Word THEN [tag |-> "err", kind |-> "General"]   \* checked_add
    ELSE IF start + length > Len(r.data) THEN [tag |-> "err", kind |-> "EOF"]
    ELSE [tag |-> "ok", bytes |-> SubSeq(r.data, start + 1, start + length)]

\* SyncReader::new
SyncReaderInit ==
    \E d \in SyncData, b \in Builds :
       syncReader = Some([data |-> d, build |-> b, pos |-> 0,
                          last |-> [op |-> "new", result |-> [tag |-> "ok"]]])

\* no call has panicked
Alive(r) == r.last.result.tag # "panic"

SyncRead(n) ==
    /\ syncReader # None /\ Alive(syncReader[1])
    /\ LET r == syncReader[1]
           res == SyncReadResult(r, n) IN
         syncReader' = Some([r EXCEPT !.pos = res.pos,
                                      !.last = [op |-> "read", from |-> r.pos, n |-> n,
                                                result |-> res.result]])
    /\ UNCHANGED <<pluginConfig, manager, parquetReader, inference>>

SyncSeek(from, offset) ==
    /\ syncReader # None /\ Alive(syncReader[1])
    /\ LET r == syncReader[1]
           new_pos == SeekTarget(r, from, offset) IN
         syncReader' = Some(
            IF new_pos = None
            THEN [r EXCEPT !.last = [op |-> "seek", result |-> Panic]]
            ELSE IF new_pos[1] < 0
            THEN [r EXCEPT !.last = [op |-> "seek", result |-> [tag |-> "err", kind |-> "InvalidInput"]]]
            ELSE [r EXCEPT !.pos = new_pos[1],
                           !.last = [op |-> "seek", result |-> [tag |-> "ok", pos |-> new_pos[1]]]])
    /\ UNCHANGED <<pluginConfig, manager, parquetReader, inference>>

SyncGetBytes(start, length) ==
    /\ syncReader # None /\ Alive(syncReader[1])
    /\ LET r == syncReader[1] IN
         syncReader' = Some([r EXCEPT !.last = [op |-> "get_bytes", start |-> start,
                                                length |-> length,
                                                result |-> GetBytesResult(r, start, length)]])
    /\ UNCHANGED <<pluginConfig, manager, parquetReader, inference>>

SeekOffsets(from) == IF from = "Start" THEN 0..(Word - 1) ELSE (-MaxOffset)..MaxOffset

SyncReaderNext ==
    \/ (\E n \in 0..MaxBuf : SyncRead(n)) /\ BaseOnly
    \/ (\E from \in {"Start", "End", "Current"} :
          \E offset \in SeekOffsets(from) : SyncSeek(from, offset)) /\ BaseOnly
    \/ (\E start \in 0..(Word - 1), length \in 0..MaxBuf : SyncGetBytes(start, length)) /\ BaseOnly

\* C30: read never panics on data.len() - pos and copies only bytes of the
\* data, returning 0 bytes when the position is past the end; get_bytes(start,
\* length) returns exactly the bytes [start, start + length) or an error when
\* the range extends past the data.
C30_ReadInsideData ==
    syncReader # None =>
        LET r == syncReader[1] IN
          /\ r.last.op = "read" =>
                /\ r.last.result.tag = "ok"
                /\ r.last.from >= Len(r.data) => r.last.result.bytes = <<>>
                /\ r.last.from + Len(r.last.result.bytes) <= Len(r.data)
                /\ r.last.result.bytes =
                      SubSeq(r.data, r.last.from + 1, r.last.from + Len(r.last.result.bytes))
          /\ r.last.op = "get_bytes" =>
                IF r.last.start + r.last.length <= Len(r.data)
                THEN /\ r.last.result.tag = "ok"
                     /\ r.last.result.bytes =
                           SubSeq(r.data, r.last.start + 1, r.last.start + r.last.length)
                ELSE r.last.result.tag = "err"

(***************************************************************************)
(* Specifications, one per component                                       *)
(***************************************************************************)
InitScan ==
    ScanInit /\ RegistryIdle /\ PipelineIdle /\ StorageIdle /\ PoolIdle /\ CodecIdle /\ AuxIdle

SpecScan == InitScan /\ [][ScanNext]_vars

InitRegistry ==
    StreamIdle /\ RegistryInit /\ PipelineIdle /\ StorageIdle /\ PoolIdle /\ CodecIdle /\ AuxIdle

SpecRegistry == InitRegistry /\ [][RegistryNext]_vars

InitPipeline ==
    StreamIdle /\ RegistryIdle /\ PipelineInit /\ StorageIdle /\ PoolIdle /\ CodecIdle /\ AuxIdle

SpecPipeline == InitPipeline /\ [][PipelineNext]_vars

InitStorage ==
    StreamIdle /\ RegistryIdle /\ PipelineIdle /\ StorageInit /\ PoolIdle /\ CodecIdle /\ AuxIdle

SpecStorage == InitStorage /\ [][StorageNext]_vars

InitPool ==
    StreamIdle /\ RegistryIdle /\ PipelineIdle /\ StorageIdle /\ PoolInit /\ CodecIdle /\ AuxIdle

SpecPool == InitPool /\ [][PoolNext]_vars

InitCodec ==
    StreamIdle /\ RegistryIdle /\ PipelineIdle /\ StorageIdle /\ PoolIdle /\ CodecInit /\ AuxIdle

SpecCodec == InitCodec /\ [][CodecNext]_vars

InitStream ==
    StreamInit /\ RegistryIdle /\ PipelineIdle /\ StorageIdle /\ PoolIdle /\ CodecIdle /\ AuxIdle

SpecStream == InitStream /\ [][StreamNext]_vars

InitDecode ==
    CoreIdle /\ DecodeInit
       /\ encoder = None /\ localFs = None /\ opened = None /\ config = None /\ MoreIdle

SpecDecode == InitDecode /\ [][DecodeNext]_vars

InitEncode ==
    CoreIdle /\ EncodeInit
       /\ decoder = None /\ localFs = None /\ opened = None /\ config = None /\ MoreIdle

SpecEncode == InitEncode /\ [][EncodeNext]_vars

InitLocal ==
    CoreIdle /\ LocalInit
       /\ decoder = None /\ encoder = None /\ opened = None /\ config = None /\ MoreIdle

SpecLocal == InitLocal /\ [][LocalNext]_vars

InitUrl ==
    CoreIdle /\ UrlInit
       /\ decoder = None /\ encoder = None /\ localFs = None /\ config = None /\ MoreIdle

SpecUrl == InitUrl /\ [][UrlNext]_vars

InitConfig ==
    CoreIdle /\ ConfigInit
       /\ decoder = None /\ encoder = None /\ localFs = None /\ opened = None /\ MoreIdle

SpecConfig == InitConfig /\ [][ConfigNext]_vars

InitPluginConfig ==
    BaseIdle /\ PluginConfigInit
       /\ manager = None /\ parquetReader = None /\ inference = None /\ syncReader = None

SpecPluginConfig == InitPluginConfig /\ [][PluginConfigNext]_vars

InitManager ==
    BaseIdle /\ ManagerInit
       /\ pluginConfig = None /\ parquetReader = None /\ inference = None /\ syncReader = None

SpecManager == InitManager /\ [][ManagerNext]_vars

InitParquetReader ==
    BaseIdle /\ ParquetReaderInit
       /\ pluginConfig = None /\ manager = None /\ inference = None /\ syncReader = None

SpecParquetReader == InitParquetReader /\ [][ParquetReaderNext]_vars

\* the consumer keeps polling the reader
FairParquetReader == SpecParquetReader /\ WF_vars(ParquetReaderNext)

InitInference ==
    BaseIdle /\ InferenceInit
       /\ pluginConfig = None /\ manager = None /\ parquetReader = None /\ syncReader = None

SpecInference == InitInference /\ [][InferenceNext]_vars

InitSyncReader ==
    BaseIdle /\ SyncReaderInit
       /\ pluginConfig = None /\ manager = None /\ parquetReader = None /\ inference = None

SpecSyncReader == InitSyncReader /\ [][SyncReaderNext]_vars

=============================================================================
